---- MODULE Spec2Model ----
(***************************************************************************)
(* Model of rust-image-service: the transformation pipeline                *)
(* (apply_transformations), the filter dispatcher (apply_filter_str), the  *)
(* format encoder (encode_image_to_bytes), the two request handlers and    *)
(* the error-to-status mapping (AppError::into_response).                  *)
(*                                                                         *)
(* Strings are sequences of one-character strings, so that split, trim,    *)
(* to_lowercase and the numeric parsers are computed rather than assumed.  *)
(* Option<T> is a sequence of length 0 (None) or 1 (Some).                 *)
(* A raster is [width, height, px]: px is the history of pixel primitives  *)
(* that produced it from the decoded source.                               *)
(***************************************************************************)
EXTENDS Integers, Sequences, FiniteSets, TLC

VARIABLES pc, input, output

vars == <<pc, input, output>>

----------------------------------------------------------------------------
(* Bounds of the model *)

\* largest width / height of a decoded source image
MaxDim == 3

\* largest ordinary value of a crop or resize parameter
MaxArg == 4

\* maximum of the unsigned 32-bit coordinate type, scaled down
U32Max == 31

\* largest number of fields in a multipart upload
MaxFields == 3

\* maximum of the u8 quality type
U8Max == 255

\* maximum of the i32 filter argument type
I32Max == 2147483647

\* number of significand bits of an f32
F32Bits == 24

----------------------------------------------------------------------------
(* Option and Result *)

None == <<>>

Some(v) == <<v>>

IsSome(o) == Len(o) = 1

IsNone(o) == Len(o) = 0

UnwrapOr(o, d) == IF Len(o) = 1 THEN o[1] ELSE d

Ok(v) == [ok |-> TRUE, val |-> v]

Err(e) == [ok |-> FALSE, err |-> e]

Min(a, b) == IF a < b THEN a ELSE b

Max(a, b) == IF a > b THEN a ELSE b

----------------------------------------------------------------------------
(* Strings *)

UpperChars == <<"A","B","C","D","E","F","G","H","I","J","K","L","M",
                "N","O","P","Q","R","S","T","U","V","W","X","Y","Z">>

LowerChars == <<"a","b","c","d","e","f","g","h","i","j","k","l","m",
                "n","o","p","q","r","s","t","u","v","w","x","y","z">>

Digits == <<"0","1","2","3","4","5","6","7","8","9">>

Whitespace == {" ", "\t", "\n"}

IsDigit(c) == \E i \in 1..10 : Digits[i] = c

DigitVal(c) == (CHOOSE i \in 1..10 : Digits[i] = c) - 1

\* char::to_lowercase on the ASCII range
to_lowercase_char(c) ==
    IF \E i \in 1..26 : UpperChars[i] = c
    THEN LowerChars[CHOOSE i \in 1..26 : UpperChars[i] = c]
    ELSE c

\* str::to_lowercase
to_lowercase(s) == [i \in 1..Len(s) |-> to_lowercase_char(s[i])]

RECURSIVE trim_start(_)
trim_start(s) ==
    IF s # <<>> /\ s[1] \in Whitespace THEN trim_start(Tail(s)) ELSE s

RECURSIVE trim_end(_)
trim_end(s) ==
    IF s # <<>> /\ s[Len(s)] \in Whitespace
    THEN trim_end(SubSeq(s, 1, Len(s) - 1))
    ELSE s

\* str::trim
trim(s) == trim_end(trim_start(s))

\* str::split(sep).collect(): always at least one part
RECURSIVE split(_, _)
split(s, sep) ==
    IF \E i \in 1..Len(s) : s[i] = sep
    THEN LET i == CHOOSE k \in 1..Len(s) :
                      s[k] = sep /\ \A j \in 1..(k - 1) : s[j] # sep
         IN  <<SubSeq(s, 1, i - 1)>> \o split(SubSeq(s, i + 1, Len(s)), sep)
    ELSE <<s>>

\* value of a non-empty run of decimal digits, None when it exceeds max
RECURSIVE digits_value(_, _, _)
digits_value(s, acc, max) ==
    IF s = <<>> THEN Some(acc)
    ELSE IF ~IsDigit(s[1]) THEN None
    ELSE LET d == DigitVal(s[1])
         IN  IF acc > (max - d) \div 10 THEN None
             ELSE digits_value(Tail(s), acc * 10 + d, max)

\* str::parse::<uN>(): optional '+', one or more digits, no overflow
parse_unsigned(s, max) ==
    LET body == IF s # <<>> /\ s[1] = "+" THEN Tail(s) ELSE s
    IN  IF body = <<>> THEN None ELSE digits_value(body, 0, max)

\* variant of parse_i32: a token that is no integer reads as 0
parse_i32_lenient(s) ==
    LET neg  == s # <<>> /\ s[1] = "-"
        body == IF s # <<>> /\ s[1] \in {"+", "-"} THEN Tail(s) ELSE s
        mag  == IF body = <<>> THEN None
                ELSE digits_value(body, 0, I32Max)
    IN  Some(IF IsNone(mag) THEN 0 ELSE IF neg THEN 0 - mag[1] ELSE mag[1])

\* str::parse::<i32>(): optional sign, one or more digits, no overflow
parse_i32(s) ==
    LET neg  == s # <<>> /\ s[1] = "-"
        body == IF s # <<>> /\ s[1] \in {"+", "-"} THEN Tail(s) ELSE s
        mag  == IF body = <<>> THEN None
                ELSE digits_value(body, 0, I32Max)
    IN  IF IsNone(mag) THEN None
        ELSE Some(IF neg THEN 0 - mag[1] ELSE mag[1])

\* a decimal value mant / 10^scale without trailing fractional zeros
RECURSIVE normalize(_, _)
normalize(mant, scale) ==
    IF scale > 0 /\ mant % 10 = 0 THEN normalize(mant \div 10, scale - 1)
    ELSE <<mant, scale>>

NaN == <<0, -1>>

Infinity == <<1, -1>>

NegInfinity == <<-1, -1>>

\* str::parse::<f32>() on tokens without an exponent part: optional sign,
\* then inf / infinity / nan in any case, or digits with at most one '.'
\* and at least one digit.  The value is kept as an exact decimal
\* <<mantissa, scale>>; the pixel primitives receive it unchanged.
parse_f32(s) ==
    LET neg  == s # <<>> /\ s[1] = "-"
        body == IF s # <<>> /\ s[1] \in {"+", "-"} THEN Tail(s) ELSE s
        low  == to_lowercase(body)
        parts == split(body, ".")
        ip   == parts[1]
        fp   == IF Len(parts) > 1 THEN parts[2] ELSE <<>>
        alld == ip \o fp
    IN  IF low = <<"n","a","n">> THEN Some(NaN)
        ELSE IF low = <<"i","n","f">>
                \/ low = <<"i","n","f","i","n","i","t","y">>
             THEN Some(IF neg THEN NegInfinity ELSE Infinity)
        ELSE IF Len(parts) > 2 \/ alld = <<>> THEN None
        ELSE LET v == digits_value(alld, 0, I32Max)
             IN  IF IsNone(v) THEN None
                 ELSE Some(normalize(IF neg THEN 0 - v[1] ELSE v[1], Len(fp)))

----------------------------------------------------------------------------
(* Single-precision arithmetic of the aspect-ratio derivation.             *)
(* A positive f32 is <<m, k>>, the value m / 2^k with                      *)
(* 2^(F32Bits-1) <= m < 2^F32Bits; results are rounded to nearest, ties to *)
(* even.  Every u32 of the model is below 2^F32Bits, so `as f32` is exact. *)

RECURSIVE Pow2(_)
Pow2(n) == IF n <= 0 THEN 1 ELSE 2 * Pow2(n - 1)

\* 2^F32Bits and 2^(F32Bits-1): the bounds of a normalised significand
F32Top == Pow2(F32Bits)

F32Hidden == Pow2(F32Bits - 1)

\* <<n * 2^k, k>> for the least k that brings n / b up to F32Hidden
RECURSIVE div_shift(_, _, _)
div_shift(n, b, k) ==
    IF n \div b >= F32Hidden THEN <<n, k>> ELSE div_shift(2 * n, b, k + 1)

\* a as f32 / b as f32, for 1 <= a, b
f32_div(a, b) ==
    LET nk == div_shift(a, b, 0)
        q  == nk[1] \div b
        r  == nk[1] % b
        m  == IF 2 * r > b \/ (2 * r = b /\ q % 2 = 1) THEN q + 1 ELSE q
    IN  IF m = F32Top THEN <<F32Hidden, nk[2] - 1>> ELSE <<m, nk[2]>>

\* the least s that brings p / 2^s below F32Top
RECURSIVE mul_shift(_, _)
mul_shift(q, s) ==
    IF q < F32Top THEN s ELSE mul_shift(q \div 2, s + 1)

\* t as f32 * x, for 1 <= t
f32_mul(t, x) ==
    LET p  == t * x[1]
        s  == mul_shift(p, 0)
        d  == Pow2(s)
        q  == p \div d
        r  == p % d
        m  == IF s > 0 /\ (2 * r > d \/ (2 * r = d /\ q % 2 = 1))
              THEN q + 1 ELSE q
    IN  IF m = F32Top THEN <<F32Hidden, x[2] - s - 1>> ELSE <<m, x[2] - s>>

\* x as u32: truncates toward zero and saturates at the maximum
f32_as_u32(x) ==
    IF x[2] < 0 THEN U32Max
    ELSE Min(x[1] \div Pow2(x[2]), U32Max)

\* variant of saturating_add: the sum wraps around (u32::wrapping_add)
wrapping_add(a, b) == (a + b) % (U32Max + 1)

\* u32::saturating_add
saturating_add(a, b) == Min(a + b, U32Max)

----------------------------------------------------------------------------
(* Pixel primitives of the image crate, as far as the pipeline sees them:  *)
(* the resulting size and which primitive ran with which arguments.        *)

Applied(img, w, h, name, a) ==
    [width |-> w, height |-> h, px |-> Append(img.px, [op |-> name, a |-> a])]

\* DynamicImage::crop_imm clamps the window to the image
crop_imm(img, x, y, width, height) ==
    LET x1 == Min(x, img.width)
        y1 == Min(y, img.height)
    IN  Applied(img, Min(width, img.width - x1), Min(height, img.height - y1),
                "crop_imm", <<x, y, width, height>>)

\* ops::resize_image: resize_exact with the triangle kernel
resize_image(img, nwidth, nheight) ==
    Applied(img, nwidth, nheight, "resize_exact", <<nwidth, nheight>>)

PixelOp(img, name, a) == Applied(img, img.width, img.height, name, a)

\* result of a fallible step together with the primitives it invoked
Step(res, calls) == [res |-> res, calls |-> calls]

Done(img, n) == Step(Ok(img), SubSeq(img.px, Len(img.px) - n + 1, Len(img.px)))

Fail(variant, detail) == Step(Err([variant |-> variant, detail |-> detail]), <<>>)

\* ops::crop_image
crop_image(img, x, y, width, height) ==
    IF saturating_add(x, width) > img.width
       \/ saturating_add(y, height) > img.height
    THEN Fail("InvalidCropDimensions", <<>>)
    ELSE Done(crop_imm(img, x, y, width, height), 1)

\* ops::apply_filter_str
apply_filter_str(img, filter_str) ==
    LET parts == split(filter_str, ":")
        filter_name == to_lowercase(parts[1])
        f1 == IF Len(parts) > 1 THEN parse_f32(parts[2]) ELSE None
        f1t == IF Len(parts) > 1 THEN parse_f32(trim(parts[2])) ELSE None
        i1t == IF Len(parts) > 1 THEN parse_i32(trim(parts[2])) ELSE None
        i2 == IF Len(parts) > 2 THEN parse_i32(parts[3]) ELSE None
    IN  CASE filter_name = <<"g","r","a","y","s","c","a","l","e">> ->
               Done(PixelOp(img, "grayscale", <<>>), 1)
          [] filter_name = <<"i","n","v","e","r","t">> ->
               Done(PixelOp(img, "invert", <<>>), 1)
          [] filter_name = <<"b","l","u","r">> ->
               IF Len(parts) > 1 /\ IsNone(f1)
               THEN Fail("InvalidFilterParameters", <<>>)
               ELSE Done(PixelOp(img, "blur", UnwrapOr(f1, <<1, 0>>)), 1)
          [] filter_name = <<"s","h","a","r","p","e","n">> ->
               IF Len(parts) > 1 /\ IsNone(f1)
               THEN Fail("InvalidFilterParameters", <<>>)
               ELSE IF Len(parts) > 2 /\ IsNone(i2)
               THEN Fail("InvalidFilterParameters", <<>>)
               ELSE Done(PixelOp(PixelOp(img, "to_rgba8", <<>>), "unsharpen",
                                 UnwrapOr(f1, <<1, 0>>) \o <<UnwrapOr(i2, 0)>>), 2)
          [] filter_name = <<"b","r","i","g","h","t","e","n">> ->
               IF Len(parts) > 1 /\ IsNone(i1t)
               THEN Fail("InvalidFilterParameters", <<>>)
               ELSE Done(PixelOp(img, "brighten", <<UnwrapOr(i1t, 10)>>), 1)
          [] filter_name = <<"c","o","n","t","r","a","s","t">> ->
               IF Len(parts) > 1 /\ IsNone(f1t)
               THEN Fail("InvalidFilterParameters", <<>>)
               ELSE Done(PixelOp(img, "adjust_contrast", UnwrapOr(f1t, <<10, 0>>)), 1)
          [] OTHER -> Fail("UnsupportedFilter", filter_name)

\* the aspect-ratio derivation: (target as f32 * (num as f32 / den as f32)) as u32
derive_dimension(target, num, den) ==
    f32_as_u32(f32_mul(target, f32_div(num, den)))

\* main.rs: the crop stage of apply_transformations
crop_stage(img, crop_x, crop_y, crop_w, crop_h) ==
    IF IsSome(crop_x) /\ IsSome(crop_y) /\ IsSome(crop_w) /\ IsSome(crop_h)
    THEN IF crop_w[1] > 0 /\ crop_h[1] > 0
         THEN crop_image(img, crop_x[1], crop_y[1], crop_w[1], crop_h[1])
         ELSE Fail("InvalidCropDimensions", <<>>)
    ELSE Done(img, 0)

\* variant of resize_stage: the resolved dimensions are not checked
resize_stage_unchecked(img, w, h) ==
    LET target_w == UnwrapOr(w, img.width)
        target_h == UnwrapOr(h, img.height)
        final_w == IF IsNone(w) /\ IsSome(h)
                   THEN derive_dimension(target_h, img.width, img.height)
                   ELSE target_w
        final_h == IF IsSome(w) /\ IsNone(h)
                   THEN derive_dimension(target_w, img.height, img.width)
                   ELSE target_h
    IN  IF IsSome(w) \/ IsSome(h)
        THEN IF target_w > 0 /\ target_h > 0
             THEN Done(resize_image(img, final_w, final_h), 1)
             ELSE Fail("InvalidResizeDimensions", <<>>)
        ELSE Done(img, 0)

\* main.rs: the resize stage of apply_transformations
resize_stage(img, w, h) ==
    LET current_w == img.width
        current_h == img.height
        target_w == UnwrapOr(w, current_w)
        target_h == UnwrapOr(h, current_h)
        final_w == IF IsNone(w) /\ IsSome(h)
                   THEN derive_dimension(target_h, current_w, current_h)
                   ELSE target_w
        final_h == IF IsNone(w) /\ IsSome(h) THEN target_h
                   ELSE IF IsSome(w) /\ IsNone(h)
                   THEN derive_dimension(target_w, current_h, current_w)
                   ELSE target_h
    IN  IF IsSome(w) \/ IsSome(h)
        THEN IF target_w > 0 /\ target_h > 0
             THEN IF final_w > 0 /\ final_h > 0
                  THEN Done(resize_image(img, final_w, final_h), 1)
                  ELSE Fail("InvalidResizeDimensions", <<>>)
             ELSE Fail("InvalidResizeDimensions", <<>>)
        ELSE Done(img, 0)

\* variant of filter_stage: the spec string is not trimmed before the test
filter_stage_untrimmed(img, filter_str) ==
    IF IsSome(filter_str) /\ filter_str[1] # <<>>
    THEN apply_filter_str(img, filter_str[1])
    ELSE Done(img, 0)

\* main.rs: the filter stage of apply_transformations
filter_stage(img, filter_str) ==
    IF IsSome(filter_str) /\ trim(filter_str[1]) # <<>>
    THEN apply_filter_str(img, filter_str[1])
    ELSE Done(img, 0)

\* variant of apply_transformations: the resize stage runs before the crop
apply_transformations_resize_first(img, w, h, crop_x, crop_y, crop_w, crop_h, filter_str) ==
    LET resized == resize_stage(img, w, h)
        cropped == crop_stage(resized.res.val, crop_x, crop_y, crop_w, crop_h)
        filtered == filter_stage(cropped.res.val, filter_str)
    IN  IF ~resized.res.ok THEN resized
        ELSE IF ~cropped.res.ok
        THEN Step(cropped.res, resized.calls \o cropped.calls)
        ELSE Step(filtered.res, resized.calls \o cropped.calls \o filtered.calls)

\* main.rs: apply_transformations; each stage is entered only when the
\* stage before it returned Ok (the ? operator)
apply_transformations(img, w, h, crop_x, crop_y, crop_w, crop_h, filter_str) ==
    LET cropped == crop_stage(img, crop_x, crop_y, crop_w, crop_h)
        resized == resize_stage(cropped.res.val, w, h)
        filtered == filter_stage(resized.res.val, filter_str)
    IN  IF ~cropped.res.ok THEN cropped
        ELSE IF ~resized.res.ok
        THEN Step(resized.res, cropped.calls \o resized.calls)
        ELSE Step(filtered.res, cropped.calls \o resized.calls \o filtered.calls)

----------------------------------------------------------------------------
(* Format encoder *)

Encoded(img, encoder, a, mime) ==
    Step(Ok([bytes |-> [encoder |-> encoder, a |-> a, img |-> img],
             mime_type |-> mime]),
         <<[op |-> encoder, a |-> a]>>)

\* an encoder of the image crate either writes the bytes or fails with an
\* ImageError, which ? converts into ImageProcessingError
Encode(img, encoder, a, mime, enc_ok) ==
    IF enc_ok THEN Encoded(img, encoder, a, mime)
    ELSE Step(Err([variant |-> "ImageProcessingError", detail |-> <<>>]),
              <<[op |-> encoder, a |-> a]>>)

\* u8::max
u8_max(a, b) == IF a > b THEN a ELSE b

\* u8::min
u8_min(a, b) == IF a < b THEN a ELSE b

\* quality.unwrap_or(80).max(1).min(100)
jpeg_quality(quality) == u8_min(u8_max(UnwrapOr(quality, 80), 1), 100)

\* variant of encode_image_to_bytes: the token is matched as given
encode_image_to_bytes_case_sensitive(img, format_str, quality, enc_ok) ==
    LET f == format_str
    IN  CASE f = <<"p","n","g">> -> Encode(img, "png", <<>>, "image/png", enc_ok)
          [] f = <<"j","p","e","g">> \/ f = <<"j","p","g">> ->
               Encode(img, "jpeg", <<jpeg_quality(quality)>>, "image/jpeg", enc_ok)
          [] f = <<"w","e","b","p">> -> Encode(img, "webp", <<>>, "image/webp", enc_ok)
          [] f = <<"b","m","p">> -> Encode(img, "bmp", <<>>, "image/bmp", enc_ok)
          [] f = <<"g","i","f">> -> Encode(img, "gif", <<>>, "image/gif", enc_ok)
          [] OTHER -> Fail("UnsupportedOutputFormat", format_str)

\* ops::encode_image_to_bytes
encode_image_to_bytes(img, format_str, quality, enc_ok) ==
    LET f == to_lowercase(format_str)
    IN  CASE f = <<"p","n","g">> -> Encode(img, "png", <<>>, "image/png", enc_ok)
          [] f = <<"j","p","e","g">> \/ f = <<"j","p","g">> ->
               Encode(img, "jpeg", <<jpeg_quality(quality)>>, "image/jpeg", enc_ok)
          [] f = <<"w","e","b","p">> -> Encode(img, "webp", <<>>, "image/webp", enc_ok)
          [] f = <<"b","m","p">> -> Encode(img, "bmp", <<>>, "image/bmp", enc_ok)
          [] f = <<"g","i","f">> -> Encode(img, "gif", <<>>, "image/gif", enc_ok)
          [] OTHER -> Fail("UnsupportedOutputFormat", format_str)

----------------------------------------------------------------------------
(* Error mapping *)

BAD_REQUEST == 400

INTERNAL_SERVER_ERROR == 500

BAD_GATEWAY == 502

StatusOK == 200

\* error.rs: the status chosen by AppError::into_response
into_response(err) ==
    CASE err.variant = "ImageFetchError" -> BAD_REQUEST
      [] err.variant = "ImageProcessingError" -> INTERNAL_SERVER_ERROR
      [] err.variant = "MultipartError" -> BAD_REQUEST
      [] err.variant = "IoError" -> INTERNAL_SERVER_ERROR
      [] err.variant = "ReqwestError" -> BAD_GATEWAY
      [] err.variant = "MissingImageFile" -> BAD_REQUEST
      [] err.variant = "UnsupportedFilter" -> BAD_REQUEST
      [] err.variant = "InvalidFilterParameters" -> BAD_REQUEST
      [] err.variant = "UnsupportedOutputFormat" -> BAD_REQUEST
      [] err.variant = "InvalidCropDimensions" -> BAD_REQUEST
      [] err.variant = "InvalidResizeDimensions" -> BAD_REQUEST

----------------------------------------------------------------------------
(* Request handlers *)

RECURSIVE last_index(_, _, _)
last_index(s, c, i) ==
    IF i = 0 THEN 0 ELSE IF s[i] = c THEN i ELSE last_index(s, c, i - 1)

RECURSIVE strip_trailing(_, _)
strip_trailing(s, c) ==
    IF s # <<>> /\ s[Len(s)] = c
    THEN strip_trailing(SubSeq(s, 1, Len(s) - 1), c)
    ELSE s

\* Path::file_name: the last component, None when it is empty or ".."
file_name(path) ==
    LET p == strip_trailing(path, "/")
        name == SubSeq(p, last_index(p, "/", Len(p)) + 1, Len(p))
    IN  IF name = <<>> \/ name = <<".", ".">> THEN None ELSE Some(name)

\* Path::extension: the part of the file name after its last '.', None
\* when there is no '.' or the only one is the first character
extension(path) ==
    LET name == file_name(path)
        dot == IF IsSome(name) THEN last_index(name[1], ".", Len(name[1])) ELSE 0
    IN  IF dot <= 1 THEN None
        ELSE Some(SubSeq(name[1], dot + 1, Len(name[1])))

\* main.rs: infer_format_from_url_or_default
infer_format_from_url_or_default(url, default) ==
    LET ext == extension(url)
    IN  IF IsSome(ext) THEN to_lowercase(ext[1]) ELSE default

\* main.rs: infer_format_from_filename_or_default
infer_format_from_filename_or_default(filename, default) ==
    LET ext == IF IsSome(filename) THEN extension(filename[1]) ELSE None
    IN  IF IsSome(ext) THEN to_lowercase(ext[1]) ELSE default

\* image::load_from_memory: bytes are modelled by what they decode to
load_from_memory(bytes) ==
    IF IsSome(bytes) THEN Step(Ok(bytes[1]), <<>>)
    ELSE Fail("ImageProcessingError", <<>>)

\* ops::fetch_image_bytes_from_url; fetch is what the network does
fetch_image_bytes_from_url(url, fetch) ==
    CASE fetch.outcome = "transport_error" -> Fail("ReqwestError", <<>>)
      [] fetch.outcome = "bad_status" -> Fail("ImageFetchError", <<>>)
      [] fetch.outcome = "body_error" -> Fail("ReqwestError", <<>>)
      [] OTHER -> Step(Ok(fetch.bytes), <<>>)

\* the handler's Result turned into the response axum sends
Respond(step) ==
    IF step.res.ok
    THEN [status |-> StatusOK, content_type |-> step.res.val.mime_type,
          body |-> step.res.val.bytes, error |-> None,
          calls |-> step.calls]
    ELSE [status |-> into_response(step.res.err), content_type |-> "application/json",
          body |-> <<>>, error |-> Some(step.res.err),
          calls |-> step.calls]

\* the image stages shared by both handlers: decode, transform, encode
Process(bytes, p, default_format, enc_ok) ==
    LET decoded == load_from_memory(bytes)
        transformed == apply_transformations(decoded.res.val, p.w, p.h,
                           p.crop_x, p.crop_y, p.crop_w, p.crop_h, p.filter)
        output_format_str == UnwrapOr(p.output_format, default_format)
        encoded == encode_image_to_bytes(transformed.res.val, output_format_str,
                                         p.quality, enc_ok)
    IN  IF ~decoded.res.ok THEN decoded
        ELSE IF ~transformed.res.ok THEN transformed
        ELSE Step(encoded.res, transformed.calls \o encoded.calls)

\* main.rs: process_image_from_url
process_image_from_url(params, fetch, enc_ok) ==
    LET fetched == fetch_image_bytes_from_url(params.url, fetch)
    IN  IF ~fetched.res.ok THEN Respond(fetched)
        ELSE Respond(Process(fetched.res.val, params,
                             infer_format_from_url_or_default(params.url, <<"p","n","g">>),
                             enc_ok))

\* ImageFormDataParams::default() together with image_bytes = None
FormDefault ==
    [image_bytes |-> None,
     w |-> None, h |-> None, crop_x |-> None, crop_y |-> None,
     crop_w |-> None, crop_h |-> None, filter |-> None,
     output_format |-> None, quality |-> None]

\* main.rs: one iteration of the multipart loop of process_image_from_upload
read_field(acc, field) ==
    IF IsNone(field.name) THEN acc
    ELSE CASE field.name[1] = "image" ->
                IF IsNone(acc.image_bytes)
                THEN [acc EXCEPT !.image_bytes = Some(field.bytes)]
                ELSE acc
           [] field.name[1] = "w" ->
                [acc EXCEPT !.w = parse_unsigned(field.text, U32Max)]
           [] field.name[1] = "h" ->
                [acc EXCEPT !.h = parse_unsigned(field.text, U32Max)]
           [] field.name[1] = "crop_x" ->
                [acc EXCEPT !.crop_x = parse_unsigned(field.text, U32Max)]
           [] field.name[1] = "crop_y" ->
                [acc EXCEPT !.crop_y = parse_unsigned(field.text, U32Max)]
           [] field.name[1] = "crop_w" ->
                [acc EXCEPT !.crop_w = parse_unsigned(field.text, U32Max)]
           [] field.name[1] = "crop_h" ->
                [acc EXCEPT !.crop_h = parse_unsigned(field.text, U32Max)]
           [] field.name[1] = "filter" ->
                [acc EXCEPT !.filter = Some(field.text)]
           [] field.name[1] = "output_format" ->
                [acc EXCEPT !.output_format = Some(field.text)]
           [] field.name[1] = "quality" ->
                [acc EXCEPT !.quality = parse_unsigned(field.text, U8Max)]
           [] OTHER -> acc

\* the loop over multipart.next_field(); reading field number fail_at fails
RECURSIVE read_fields(_, _, _, _)
read_fields(acc, fields, i, fail_at) ==
    IF i > Len(fields) THEN Ok(acc)
    ELSE IF i = fail_at THEN Err([variant |-> "MultipartError", detail |-> <<>>])
    ELSE read_fields(read_field(acc, fields[i]), fields, i + 1, fail_at)

\* main.rs: process_image_from_upload
process_image_from_upload(fields, fail_at, enc_ok) ==
    LET image_filename == None
        form == read_fields(FormDefault, fields, 1, fail_at)
    IN  IF ~form.ok THEN Respond(Step(form, <<>>))
        ELSE IF IsNone(form.val.image_bytes)
        THEN Respond(Fail("MissingImageFile", <<>>))
        ELSE Respond(Process(form.val.image_bytes[1], form.val,
                             infer_format_from_filename_or_default(image_filename, <<"p","n","g">>),
                             enc_ok))

----------------------------------------------------------------------------
(* Inputs *)

Image(W, H) == [width |-> W, height |-> H, px |-> <<>>]

\* decoded source images; a decoded raster is at least 1 by 1 and, being
\* held in memory, far smaller than the maximum of the coordinate type
Images == {Image(W, H) : W \in 1..MaxDim, H \in 1..MaxDim}

Opt(S) == {None} \cup {Some(v) : v \in S}

\* values of a resize or crop extent, the type's maximum included
ArgVals == (0..MaxArg) \cup {U32Max}

\* values of a crop origin
PosVals == {0, 1, U32Max}

\* values of a parameter where every stage is exercised together
FewVals == {0, 1}

F_empty == <<>>

F_blank == <<" "," ">>

F_grayscale == <<"g","r","a","y","s","c","a","l","e">>

F_Invert_padded == <<" ","I","n","v","e","r","t"," ">>

F_invert == <<"i","n","v","e","r","t">>

F_nonsense == <<"n","o","n","s","e","n","s","e">>

F_blur_abc == <<"b","l","u","r",":","a","b","c">>

F_brighten == <<"b","r","i","g","h","t","e","n">>

U_jpg == <<"h","t","t","p",":","/","/","h","/","a",".","J","P","G">>

U_noext == <<"h","t","t","p",":","/","/","h","/","i","m","g">>

U_host == <<"h","t","t","p",":","/","/","h",".","i","o">>

U_query == <<"h","t","t","p",":","/","/","h","/","a",".","g","i","f","?","v","=","1">>

TParams(w, h, cx, cy, cw, ch, f) ==
    [w |-> w, h |-> h, crop_x |-> cx, crop_y |-> cy,
     crop_w |-> cw, crop_h |-> ch, filter |-> f]

\* requests that vary the crop window
CropInputs ==
    {TParams(None, h, cx, cy, cw, ch, f) :
        h \in {None, Some(2)}, cx \in Opt(PosVals), cy \in Opt(PosVals),
        cw \in Opt(ArgVals), ch \in Opt(ArgVals), f \in {None, Some(F_invert)}}

\* requests that vary the resize target, on the source or on a cropped image
ResizeInputs ==
    {TParams(w, h, c[1], c[2], c[3], c[4], f) :
        w \in Opt(ArgVals), h \in Opt(ArgVals),
        c \in {<<None, None, None, None>>,
               <<Some(0), Some(0), Some(1), Some(2)>>,
               <<Some(0), Some(0), Some(2), Some(1)>>,
               <<Some(1), Some(0), Some(2), Some(3)>>,
               <<Some(0), Some(0), Some(0), Some(1)>>,
               <<None, Some(0), Some(1), Some(1)>>},
        f \in {None, Some(F_blur_abc)}}

\* requests that vary which stages are triggered
StageInputs ==
    {TParams(w, h, cx, cy, cw, ch, f) :
        w \in Opt({0, 2}), h \in Opt({0, 2}),
        cx \in Opt(FewVals), cy \in Opt(FewVals),
        cw \in Opt(FewVals), ch \in Opt(FewVals),
        f \in Opt({F_empty, F_blank, F_grayscale, F_Invert_padded,
                   F_nonsense, F_blur_abc})}

\* filter specification strings, e.g. blur:abc, sharpen:2:5, brighten: 10
FilterSpecs ==
    {<<"b","l","u","r">>,
     <<"b","l","u","r",":","2">>,
     <<"b","l","u","r",":","1",".","0">>,
     <<"b","l","u","r",":","a","b","c">>,
     <<"b","l","u","r",":">>,
     <<"b","l","u","r",":"," ","2">>,
     <<"b","l","u","r",":","n","a","n">>,
     <<"B","L","U","R",":","2",".","5">>,
     <<"b","l","u","r",":","1",":","z","z","z">>,
     <<"s","h","a","r","p","e","n">>,
     <<"s","h","a","r","p","e","n",":","2">>,
     <<"s","h","a","r","p","e","n",":","2",":","5">>,
     <<"s","h","a","r","p","e","n",":","a","b","c">>,
     <<"s","h","a","r","p","e","n",":","2",":","a","b","c">>,
     <<"s","h","a","r","p","e","n",":","2",":","1",".","5">>,
     <<"s","h","a","r","p","e","n",":","a","b","c",":","x","y","z">>,
     <<"s","h","a","r","p","e","n",":","1",".","0",":","0">>,
     <<"s","h","a","r","p","e","n",":",":","3">>,
     <<"b","r","i","g","h","t","e","n">>,
     <<"b","r","i","g","h","t","e","n",":","1","0">>,
     <<"b","r","i","g","h","t","e","n",":","-","5">>,
     <<"b","r","i","g","h","t","e","n",":","a","b","c">>,
     <<"b","r","i","g","h","t","e","n",":"," ","1","0"," ">>,
     <<"b","r","i","g","h","t","e","n",":","1",".","5">>,
     <<"B","r","i","g","h","t","e","n",":">>,
     <<"c","o","n","t","r","a","s","t">>,
     <<"c","o","n","t","r","a","s","t",":","1","0",".","0">>,
     <<"c","o","n","t","r","a","s","t",":","1","0">>,
     <<"c","o","n","t","r","a","s","t",":","1","5",".","5">>,
     <<"c","o","n","t","r","a","s","t",":","a","b","c">>,
     <<"c","o","n","t","r","a","s","t",":">>,
     <<"g","r","a","y","s","c","a","l","e">>,
     <<"i","n","v","e","r","t">>,
     <<"g","r","a","y","s","c","a","l","e",":","a","b","c">>,
     <<"I","n","v","e","r","t">>,
     <<"n","o","n","s","e","n","s","e">>,
     <<"n","o","n","s","e","n","s","e",":","a","b","c">>,
     <<>>}

\* output format tokens, e.g. png, JPEG, tiff
FormatTokens ==
    {<<"p","n","g">>,
     <<"P","N","G">>,
     <<"P","n","g">>,
     <<"j","p","e","g">>,
     <<"J","P","E","G">>,
     <<"j","p","g">>,
     <<"J","P","G">>,
     <<"w","e","b","p">>,
     <<"W","e","b","P">>,
     <<"b","m","p">>,
     <<"B","M","P">>,
     <<"g","i","f">>,
     <<"G","I","F">>,
     <<"t","i","f","f">>,
     <<"T","I","F","F">>,
     <<" ","p","n","g">>,
     <<>>,
     <<"j","p","e">>}

\* rasters handed to the encoder
EncodeImages == {Image(1, 1), Image(2, MaxDim)}

\* every value of the u8 quality parameter
Qualities == Opt(0..U8Max)

\* every variant of AppError
AppErrors ==
    {[variant |-> v, detail |-> <<>>] :
        v \in {"ImageFetchError", "ImageProcessingError", "MultipartError",
               "IoError", "ReqwestError", "MissingImageFile",
               "InvalidFilterParameters", "InvalidCropDimensions",
               "InvalidResizeDimensions"}}
    \cup {[variant |-> "UnsupportedFilter", detail |-> F_nonsense]}
    \cup {[variant |-> "UnsupportedOutputFormat", detail |-> f] :
             f \in FormatTokens}

\* source URLs: with an extension, without one, a bare host, with a query
Urls == {U_jpg, U_noext, U_host, U_query}

\* what the network does with a fetch; ok carries bytes that decode or not
Fetches ==
    {[outcome |-> o, bytes |-> None] :
        o \in {"transport_error", "bad_status", "body_error", "ok"}}
    \cup {[outcome |-> "ok", bytes |-> Some(Image(2, MaxDim))]}

\* transformation parameters of a handler-level request
HandlerTParams ==
    {TParams(None, None, None, None, None, None, None),
     TParams(None, Some(1), None, None, None, None, Some(F_grayscale)),
     TParams(None, None, Some(0), Some(0), Some(0), Some(1), None),
     TParams(Some(0), None, None, None, None, None, None),
     TParams(None, None, None, None, None, None, Some(F_nonsense)),
     TParams(None, None, None, None, None, None, Some(F_blur_abc))}

HandlerFormats == Opt({<<"p","n","g">>, <<"J","P","E","G">>, <<"j","p","g">>, <<"g","i","f">>, <<"t","i","f","f">>})

HandlerQualities == Opt({0, 1, 100, 150, U8Max})

UrlParams ==
    {[url |-> u, w |-> t.w, h |-> t.h, crop_x |-> t.crop_x, crop_y |-> t.crop_y,
      crop_w |-> t.crop_w, crop_h |-> t.crop_h, filter |-> t.filter,
      output_format |-> f, quality |-> q] :
        u \in Urls, t \in HandlerTParams, f \in HandlerFormats,
        q \in HandlerQualities}

Field(name, text, filename, bytes) ==
    [name |-> name, text |-> text, file_name |-> filename, bytes |-> bytes]

TextField(name, text) == Field(Some(name), text, None, None)

\* fields of a multipart upload
FormFields ==
    {Field(Some("image"), <<>>, Some(<<"a",".","J","P","G">>), Some(Image(2, MaxDim))),
     Field(Some("image"), <<>>, Some(<<"i","m","g">>), Some(Image(1, 1))),
     TextField("quality", <<"3","0","0">>),
     TextField("quality", <<"1","5","0">>),
     TextField("output_format", <<"J","P","E","G">>),
     TextField("output_format", <<"g","i","f">>),
     TextField("h", <<"1">>),
     TextField("filter", F_blur_abc),
     TextField("comment", <<"1">>),
     Field(None, <<"1">>, None, None)}

RECURSIVE SeqsUpTo(_, _)
SeqsUpTo(S, n) ==
    IF n = 0 THEN {<<>>}
    ELSE LET shorter == SeqsUpTo(S, n - 1)
         IN  shorter \cup {Append(q, x) : q \in shorter, x \in S}

Forms == SeqsUpTo(FormFields, MaxFields)

TransformInputs == CropInputs \cup ResizeInputs \cup StageInputs

----------------------------------------------------------------------------
(* Actions: one per function or handler, applied to one input *)

ApplyTransformations ==
    /\ pc = "idle"
    /\ \E img \in Images, p \in TransformInputs :
         /\ input' = [img |-> img, p |-> p]
         /\ output' = apply_transformations(img, p.w, p.h, p.crop_x, p.crop_y,
                                            p.crop_w, p.crop_h, p.filter)
    /\ pc' = "apply_transformations"

ApplyFilterStr ==
    /\ pc = "idle"
    /\ \E img \in Images, f \in FilterSpecs :
         /\ input' = [img |-> img, filter_str |-> f]
         /\ output' = apply_filter_str(img, f)
    /\ pc' = "apply_filter_str"

EncodeImageToBytes ==
    /\ pc = "idle"
    /\ \E img \in EncodeImages, f \in FormatTokens, q \in Qualities,
          enc_ok \in BOOLEAN :
         /\ input' = [img |-> img, format_str |-> f, quality |-> q,
                      enc_ok |-> enc_ok]
         /\ output' = encode_image_to_bytes(img, f, q, enc_ok)
    /\ pc' = "encode_image_to_bytes"

IntoResponse ==
    /\ pc = "idle"
    /\ \E e \in AppErrors :
         /\ input' = [err |-> e]
         /\ output' = [status |-> into_response(e)]
    /\ pc' = "into_response"

ProcessImageFromUrl ==
    /\ pc = "idle"
    /\ \E params \in UrlParams, fetch \in Fetches, enc_ok \in BOOLEAN :
         /\ input' = [params |-> params, fetch |-> fetch, enc_ok |-> enc_ok]
         /\ output' = process_image_from_url(params, fetch, enc_ok)
    /\ pc' = "process_image_from_url"

ProcessImageFromUpload ==
    /\ pc = "idle"
    /\ \E fields \in Forms, enc_ok \in BOOLEAN :
       \E fail_at \in 0..Len(fields) :
         /\ input' = [fields |-> fields, fail_at |-> fail_at, enc_ok |-> enc_ok]
         /\ output' = process_image_from_upload(fields, fail_at, enc_ok)
    /\ pc' = "process_image_from_upload"

----------------------------------------------------------------------------
Init ==
    /\ pc = "idle"
    /\ input = <<>>
    /\ output = <<>>

Next ==
    \/ ApplyTransformations
    \/ ApplyFilterStr
    \/ EncodeImageToBytes
    \/ IntoResponse
    \/ ProcessImageFromUrl
    \/ ProcessImageFromUpload

Spec == Init /\ [][Next]_vars

----------------------------------------------------------------------------
(* Properties of apply_transformations.  They read the request and the     *)
(* source image from input and the returned Result and the primitives      *)
(* invoked from output.                                                    *)

AtTransform == pc = "apply_transformations"

CropRequested ==
    /\ IsSome(input.p.crop_x) /\ IsSome(input.p.crop_y)
    /\ IsSome(input.p.crop_w) /\ IsSome(input.p.crop_h)

\* the crop validation, with the sums taken over the integers
CropRejected ==
    /\ CropRequested
    /\ \/ input.p.crop_w[1] = 0
       \/ input.p.crop_h[1] = 0
       \/ input.p.crop_x[1] + input.p.crop_w[1] > input.img.width
       \/ input.p.crop_y[1] + input.p.crop_h[1] > input.img.height

\* the size of the image when the resize stage is entered
W0 == IF CropRequested THEN input.p.crop_w[1] ELSE input.img.width

H0 == IF CropRequested THEN input.p.crop_h[1] ELSE input.img.height

ResizeRequested == IsSome(input.p.w) \/ IsSome(input.p.h)

ExplicitZero ==
    \/ IsSome(input.p.w) /\ input.p.w[1] = 0
    \/ IsSome(input.p.h) /\ input.p.h[1] = 0

ResolvedW ==
    IF IsSome(input.p.w) THEN input.p.w[1]
    ELSE derive_dimension(input.p.h[1], W0, H0)

ResolvedH ==
    IF IsSome(input.p.h) THEN input.p.h[1]
    ELSE derive_dimension(input.p.w[1], H0, W0)

ResizeRejected ==
    ResizeRequested /\ (ExplicitZero \/ ResolvedW = 0 \/ ResolvedH = 0)

FilterRequested ==
    IsSome(input.p.filter) /\ trim(input.p.filter[1]) # <<>>

\* what the dispatcher does with the requested filter on its own
FilterAlone == apply_filter_str(Image(1, 1), input.p.filter[1])

FilterRejected == FilterRequested /\ ~FilterAlone.res.ok

OpsOf(calls) == [i \in 1..Len(calls) |-> calls[i].op]

CropOps == IF CropRequested THEN <<"crop_imm">> ELSE <<>>

ResizeOps == IF ResizeRequested THEN <<"resize_exact">> ELSE <<>>

FilterOps == IF FilterRequested THEN OpsOf(FilterAlone.calls) ELSE <<>>

FilterPrimitives ==
    {"grayscale", "invert", "blur", "to_rgba8", "unsharpen", "brighten",
     "adjust_contrast"}

ErrVariant == IF output.res.ok THEN "none" ELSE output.res.err.variant

Invoked(op) == \E i \in 1..Len(output.calls) : output.calls[i].op = op

ResizeCall(nw, nh) ==
    \E i \in 1..Len(output.calls) :
        output.calls[i] = [op |-> "resize_exact", a |-> <<nw, nh>>]

\* C1: the stages run in the order crop, resize, filter; the error returned
\* is that of the first stage whose validation fails, no primitive of a
\* later stage is invoked after it, and an image is returned only when
\* every triggered stage succeeded, carrying all of their effects.
C1_FailFastInOrder ==
    AtTransform =>
        IF CropRejected
        THEN ErrVariant = "InvalidCropDimensions" /\ output.calls = <<>>
        ELSE IF ResizeRejected
        THEN ErrVariant = "InvalidResizeDimensions"
             /\ OpsOf(output.calls) = CropOps
        ELSE IF FilterRejected
        THEN output.res = FilterAlone.res
             /\ OpsOf(output.calls) = CropOps \o ResizeOps
        ELSE /\ output.res.ok
             /\ OpsOf(output.calls) = CropOps \o ResizeOps \o FilterOps
             /\ output.res.val.px = output.calls

\* a request whose crop, resize and filter would each fail ends in the
\* crop error
C1_Witness ==
    /\ AtTransform
    /\ CropRejected /\ ExplicitZero /\ FilterRejected
    /\ ErrVariant = "InvalidCropDimensions"

\* C9: a stage that is not triggered invokes no primitive and raises no
\* error of its own: crop needs all four crop fields, resize needs w or h,
\* filter needs a spec that is non-empty after trimming; with no stage
\* triggered the input image is returned unchanged.
C9_UntriggeredStagesAreNoOps ==
    AtTransform =>
        /\ ~CropRequested =>
              ~Invoked("crop_imm") /\ ErrVariant # "InvalidCropDimensions"
        /\ ~ResizeRequested =>
              ~Invoked("resize_exact") /\ ErrVariant # "InvalidResizeDimensions"
        /\ ~FilterRequested =>
              /\ \A op \in FilterPrimitives : ~Invoked(op)
              /\ ErrVariant \notin {"InvalidFilterParameters", "UnsupportedFilter"}
        /\ (~CropRequested /\ ~ResizeRequested /\ ~FilterRequested) =>
              output = Step(Ok(input.img), <<>>)

\* three crop fields present, one of them zero, and a blank filter spec:
\* the image comes back unchanged
C9_Witness ==
    /\ AtTransform
    /\ IsNone(input.p.crop_x) /\ IsSome(input.p.crop_y)
    /\ input.p.crop_w = Some(0) /\ IsSome(input.p.crop_h)
    /\ ~ResizeRequested
    /\ input.p.filter = Some(F_blank)
    /\ output.res = Ok(input.img)

\* C3: with all four crop fields present, a zero extent or a window that
\* leaves the image (sums over the integers) fails with
\* InvalidCropDimensions before the crop primitive is invoked; otherwise
\* the crop primitive runs on exactly the requested window and the raster
\* is w by h.
C3_CropValidation ==
    (AtTransform /\ CropRequested) =>
        IF CropRejected
        THEN ErrVariant = "InvalidCropDimensions" /\ output.calls = <<>>
        ELSE /\ ErrVariant # "InvalidCropDimensions"
             /\ Len(output.calls) >= 1
             /\ output.calls[1] =
                   [op |-> "crop_imm",
                    a |-> <<input.p.crop_x[1], input.p.crop_y[1],
                            input.p.crop_w[1], input.p.crop_h[1]>>]
             /\ (~ResizeRequested /\ output.res.ok) =>
                   /\ output.res.val.width = input.p.crop_w[1]
                   /\ output.res.val.height = input.p.crop_h[1]

\* a window whose x + w exceeds the maximum of the coordinate type, every
\* other condition being met, is rejected
C3_Witness ==
    /\ AtTransform /\ CropRequested
    /\ input.p.crop_w[1] > 0 /\ input.p.crop_h[1] > 0
    /\ input.p.crop_x[1] + input.p.crop_w[1] > U32Max
    /\ input.p.crop_y[1] + input.p.crop_h[1] <= input.img.height
    /\ ErrVariant = "InvalidCropDimensions"

\* C4: a requested resize fails with InvalidResizeDimensions when a given
\* dimension is 0 or a derived one resolves to 0, and otherwise invokes the
\* resize primitive with the resolved dimensions; the primitive never gets
\* a zero, and two given positive dimensions are used as they are.
C4_ResizeValidation ==
    (AtTransform /\ ResizeRequested /\ ~CropRejected) =>
        /\ IF ResizeRejected
           THEN ErrVariant = "InvalidResizeDimensions" /\ ~Invoked("resize_exact")
           ELSE ResizeCall(ResolvedW, ResolvedH)
        /\ \A i \in 1..Len(output.calls) :
              output.calls[i].op = "resize_exact" =>
                  output.calls[i].a[1] > 0 /\ output.calls[i].a[2] > 0
        /\ (IsSome(input.p.w) /\ IsSome(input.p.h) /\ ~ExplicitZero) =>
              ResizeCall(input.p.w[1], input.p.h[1])

\* h = 1 on an image taller than wide: the derived width is 0
C4_Witness ==
    /\ AtTransform /\ ~CropRejected
    /\ IsNone(input.p.w) /\ input.p.h = Some(1)
    /\ H0 > W0
    /\ ErrVariant = "InvalidResizeDimensions"
    /\ output.calls = IF CropRequested
                      THEN <<[op |-> "crop_imm",
                              a |-> <<input.p.crop_x[1], input.p.crop_y[1],
                                      input.p.crop_w[1], input.p.crop_h[1]>>]>>
                      ELSE <<>>

\* n / d rounded to the nearest integer, halves away from zero
RoundDiv(n, d) == (2 * n + d) \div (2 * d)

\* C2: with only h given the resize target is (round(h * W0 / H0), h), and
\* with only w given it is (w, round(w * H0 / W0)), for every request
\* whose rounded dimension is at least 1 and fits the coordinate type.
C2_DerivedDimensionIsRounded ==
    (AtTransform /\ ~CropRejected) =>
        /\ (IsNone(input.p.w) /\ IsSome(input.p.h) /\ input.p.h[1] > 0
            /\ RoundDiv(input.p.h[1] * W0, H0) \in 1..U32Max) =>
              ResizeCall(RoundDiv(input.p.h[1] * W0, H0), input.p.h[1])
        /\ (IsSome(input.p.w) /\ IsNone(input.p.h) /\ input.p.w[1] > 0
            /\ RoundDiv(input.p.w[1] * H0, W0) \in 1..U32Max) =>
              ResizeCall(input.p.w[1], RoundDiv(input.p.w[1] * H0, W0))

----------------------------------------------------------------------------
(* Properties of apply_filter_str *)

AtFilter == pc = "apply_filter_str"

SpecParts == split(input.filter_str, ":")

SpecKind == to_lowercase(SpecParts[1])

\* number of numeric arguments of a filter kind
Arity(kind) ==
    CASE kind = <<"b","l","u","r">> -> 1
      [] kind = <<"s","h","a","r","p","e","n">> -> 2
      [] kind = <<"b","r","i","g","h","t","e","n">> -> 1
      [] kind = <<"c","o","n","t","r","a","s","t">> -> 1
      [] OTHER -> 0

\* a token that holds no digit and does not name a special float value
NonNumeric(tok) ==
    /\ \A i \in 1..Len(tok) : ~IsDigit(tok[i])
    /\ to_lowercase(tok) \notin {<<"n","a","n">>, <<"i","n","f">>, <<"i","n","f","i","n","i","t","y">>}

MalformedArgument ==
    \E j \in 1..Arity(SpecKind) :
        Len(SpecParts) > j /\ NonNumeric(SpecParts[j + 1])

FilterCall(name, a) == [op |-> name, a |-> a]

\* C5: a non-numeric token in the place of a numeric argument makes the
\* call return InvalidFilterParameters without any pixel primitive being
\* applied; an argument that is absent takes the kind's default (blur 1.0,
\* sharpen 1.0 and 0, brighten 10, contrast 10.0), so that brighten gives
\* what brighten:10 gives.
C5_FilterArguments ==
    AtFilter =>
        /\ MalformedArgument =>
              /\ output.res = Err([variant |-> "InvalidFilterParameters",
                                   detail |-> <<>>])
              /\ output.calls = <<>>
        /\ (SpecKind = <<"b","l","u","r">> /\ Len(SpecParts) = 1) =>
              output.res.ok /\ output.calls = <<FilterCall("blur", <<1, 0>>)>>
        /\ (SpecKind = <<"s","h","a","r","p","e","n">> /\ Len(SpecParts) = 1) =>
              /\ output.res.ok
              /\ output.calls = <<FilterCall("to_rgba8", <<>>),
                                  FilterCall("unsharpen", <<1, 0, 0>>)>>
        /\ (SpecKind = <<"s","h","a","r","p","e","n">> /\ Len(SpecParts) = 2 /\ output.res.ok) =>
              output.calls[2].a[3] = 0
        /\ (SpecKind = <<"b","r","i","g","h","t","e","n">> /\ Len(SpecParts) = 1) =>
              output.res.ok /\ output.calls = <<FilterCall("brighten", <<10>>)>>
        /\ (SpecKind = <<"c","o","n","t","r","a","s","t">> /\ Len(SpecParts) = 1) =>
              /\ output.res.ok
              /\ output.calls = <<FilterCall("adjust_contrast", <<10, 0>>)>>
        /\ input.filter_str = <<"b","r","i","g","h","t","e","n">> =>
              output = apply_filter_str(input.img, <<"b","r","i","g","h","t","e","n",":","1","0">>)

\* sharpen with a numeric sigma and a non-numeric threshold is rejected
C5_Witness ==
    /\ AtFilter
    /\ SpecKind = <<"s","h","a","r","p","e","n">> /\ Len(SpecParts) = 3
    /\ ~NonNumeric(SpecParts[2]) /\ NonNumeric(SpecParts[3])
    /\ ErrVariant = "InvalidFilterParameters"
    /\ output.calls = <<>>

----------------------------------------------------------------------------
(* Properties of encode_image_to_bytes *)

AtEncode == pc = "encode_image_to_bytes"

\* every spelling of a supported token among the inputs, with the encoder
\* and the MIME type it must select
FormatTable ==
    {[token |-> <<"p","n","g">>, encoder |-> "png", mime |-> "image/png"],
     [token |-> <<"P","N","G">>, encoder |-> "png", mime |-> "image/png"],
     [token |-> <<"P","n","g">>, encoder |-> "png", mime |-> "image/png"],
     [token |-> <<"j","p","e","g">>, encoder |-> "jpeg", mime |-> "image/jpeg"],
     [token |-> <<"J","P","E","G">>, encoder |-> "jpeg", mime |-> "image/jpeg"],
     [token |-> <<"j","p","g">>, encoder |-> "jpeg", mime |-> "image/jpeg"],
     [token |-> <<"J","P","G">>, encoder |-> "jpeg", mime |-> "image/jpeg"],
     [token |-> <<"w","e","b","p">>, encoder |-> "webp", mime |-> "image/webp"],
     [token |-> <<"W","e","b","P">>, encoder |-> "webp", mime |-> "image/webp"],
     [token |-> <<"b","m","p">>, encoder |-> "bmp", mime |-> "image/bmp"],
     [token |-> <<"B","M","P">>, encoder |-> "bmp", mime |-> "image/bmp"],
     [token |-> <<"g","i","f">>, encoder |-> "gif", mime |-> "image/gif"],
     [token |-> <<"G","I","F">>, encoder |-> "gif", mime |-> "image/gif"]}

Listed(token) == \E e \in FormatTable : e.token = token

Entry(token) == CHOOSE e \in FormatTable : e.token = token

\* C7: a token that is png, jpeg, jpg, webp, bmp or gif in any letter case
\* invokes that format's encoder and, when the encoder succeeds, returns
\* its MIME type; every other token fails with UnsupportedOutputFormat
\* carrying the token as requested, and no encoder is invoked.
C7_FormatSelection ==
    AtEncode =>
        IF Listed(input.format_str)
        THEN /\ OpsOf(output.calls) = <<Entry(input.format_str).encoder>>
             /\ IF input.enc_ok
                THEN /\ output.res.ok
                     /\ output.res.val.mime_type = Entry(input.format_str).mime
                     /\ output.res.val.bytes.img = input.img
                ELSE ErrVariant = "ImageProcessingError"
        ELSE /\ output.res = Err([variant |-> "UnsupportedOutputFormat",
                                  detail |-> input.format_str])
             /\ output.calls = <<>>

\* the upper-case token JPEG selects the JPEG encoder
C7_Witness ==
    /\ AtEncode
    /\ input.format_str = <<"J","P","E","G">>
    /\ output.res.ok
    /\ output.res.val.mime_type = "image/jpeg"

----------------------------------------------------------------------------
(* Properties of the request handlers *)

AtUrl == pc = "process_image_from_url"

AtUpload == pc = "process_image_from_upload"

Named(field, name) == IsSome(field.name) /\ field.name[1] = name

\* the text of the last field of the upload with the given name, if any
LastText(name) ==
    LET idx == {i \in 1..Len(input.fields) : Named(input.fields[i], name)}
    IN  IF idx = {} THEN None
        ELSE Some(input.fields[CHOOSE i \in idx : \A j \in idx : j <= i].text)

\* the file name of the first image field of the upload, if any
UploadedFileName ==
    LET idx == {i \in 1..Len(input.fields) : Named(input.fields[i], "image")}
    IN  IF idx = {} THEN None
        ELSE input.fields[CHOOSE i \in idx : \A j \in idx : i <= j].file_name

\* the quality a request asks for, as an integer
RequestedQuality ==
    IF AtUpload
    THEN IF IsSome(LastText("quality"))
         THEN digits_value(LastText("quality")[1], 0, I32Max)
         ELSE None
    ELSE input.params.quality

ClampedQuality ==
    IF IsNone(RequestedQuality) THEN 80
    ELSE IF RequestedQuality[1] = 0 THEN 1
    ELSE IF RequestedQuality[1] > 100 THEN 100
    ELSE RequestedQuality[1]

\* C6: whenever a request reaches the JPEG encoder, the quality handed to
\* it is 80 when none was requested, 1 for 0, 100 for any requested value
\* above 100 and the requested value otherwise; for every other format the
\* outcome is the one obtained without a quality.
C6_JpegQualityClamped ==
    /\ (AtUrl \/ AtUpload) =>
          \A i \in 1..Len(output.calls) :
              output.calls[i].op = "jpeg" =>
                  output.calls[i].a = <<ClampedQuality>>
    /\ AtEncode =>
          /\ \A i \in 1..Len(output.calls) :
                output.calls[i].op = "jpeg" =>
                    /\ output.calls[i].a[1] \in 1..100
                    /\ output.calls[i].a[1] =
                          IF IsNone(input.quality) THEN 80
                          ELSE Min(Max(input.quality[1], 1), 100)
          /\ ~Invoked("jpeg") =>
                output = encode_image_to_bytes(input.img, input.format_str,
                                               None, input.enc_ok)

ValidationErrors ==
    {"InvalidCropDimensions", "InvalidResizeDimensions",
     "InvalidFilterParameters", "UnsupportedFilter",
     "UnsupportedOutputFormat", "MissingImageFile"}

InternalErrors == {"ImageProcessingError", "IoError"}

\* C8: a request that ends in a validation or unsupported-input error is
\* answered with a 4xx status, one that ends in an internal processing
\* failure with a 5xx status, and one whose fetch failed, by a transport
\* error or by a non-success status of the remote server, with 502.
C8_StatusByErrorClass ==
    ((AtUrl \/ AtUpload) /\ IsSome(output.error)) =>
        /\ output.error[1].variant \in ValidationErrors =>
              output.status \in 400..499
        /\ output.error[1].variant \in InternalErrors =>
              output.status \in 500..599
        /\ (AtUrl /\ input.fetch.outcome # "ok") =>
              output.status = BAD_GATEWAY

\* the format token a request must be encoded with: the output_format it
\* carries, else the extension of the URL or of the uploaded file's name,
\* else png
ExpectedFormat ==
    IF AtUrl
    THEN UnwrapOr(input.params.output_format,
                  infer_format_from_url_or_default(input.params.url, <<"p","n","g">>))
    ELSE UnwrapOr(LastText("output_format"),
                  infer_format_from_filename_or_default(UploadedFileName, <<"p","n","g">>))

EncoderOps == {"png", "jpeg", "webp", "bmp", "gif"}

\* C10: a request that reaches the encoding step is encoded with its
\* output_format when it carries one, and otherwise with the format
\* inferred from the URL's or the uploaded file name's extension, png when
\* there is none.
C10_DefaultOutputFormat ==
    (AtUrl \/ AtUpload) =>
        /\ \A i \in 1..Len(output.calls) :
              output.calls[i].op \in EncoderOps =>
                  /\ Listed(ExpectedFormat) \/ Listed(to_lowercase(ExpectedFormat))
                  /\ output.calls[i].op =
                        encode_image_to_bytes(Image(1, 1), ExpectedFormat,
                                              None, TRUE).calls[1].op
        /\ (IsSome(output.error)
            /\ output.error[1].variant = "UnsupportedOutputFormat") =>
              output.error[1].detail = ExpectedFormat

====
